---- MODULE Spec2Model ----
(***************************************************************************)
(* TableCache of db/table_cache.cc: lookup-or-open of a (file, table) pair *)
(* for a file number, searched over the configured data directories and    *)
(* the main DB directory, cached in an LRU cache with reference counts.    *)
(*                                                                         *)
(* Threads run Get, NewIterator and Evict concurrently.  The cache calls   *)
(* (Lookup, Insert, Release, Erase) are atomic; a thread can be preempted  *)
(* between its Lookup, the directory loop and its Insert, and between the  *)
(* return of FindTable and the release of the handle.                      *)
(***************************************************************************)
EXTENDS Integers, Sequences, FiniteSets, TLC

\* ------------------------------------------------------------- bounds
MaxEntries == 2      \* TableAndFile objects created over one behaviour
MaxIters == 1        \* iterators alive at the same time
Capacity == 1        \* `entries` given to the constructor (cache capacity)
MaxDataDirs == 2     \* length of options.data_dirs in the resolution runs

Threads == {"t1", "t2"}
FileNumbers == {0, 1}
Dirs == {"A", "B", "P"}
dbname_ == "P"
Sizes == {4, 5}      \* file_size arguments; every table file is 4 long

\* ------------------------------------------------------------- state
VARIABLES
    options_,     \* [enable_multi_disk, data_dirs]
    fs,           \* fs[dir][number]: what the directory holds for the number
    entries,      \* the TableAndFile objects ever created, with their cache node
    lru,          \* the cache's lru_ list (cached, no outstanding handle), oldest first
    closed,       \* the TableCache was destroyed
    pc,           \* pc[t]: "idle", "search" (FindTable missed), "insert" (it opened
                  \* a table), "ret" (FindTable returned)
    call,         \* call[t]: the locals of the call thread t is in
    iters,        \* the iterators handed out by NewIterator
    openFiles,    \* RandomAccessFile objects alive
    usedDeleted,  \* a table was read after DeleteEntry ran on it
    first,        \* first[n]: entry of the first successful FindTable(n) since Evict(n)
    last,         \* last[n]: entry of the latest successful FindTable(n), while cached
    stale         \* the cached entries whose file was opened before an Evict
                  \* of their number was called

vars == <<options_, fs, entries, lru, closed, pc, call, iters, openFiles,
          usedDeleted, first, last, stale>>

\* ------------------------------------------------------------- statuses
OK == [code |-> "OK", dir |-> "", ext |-> ""]
NotFoundInitial == [code |-> "NotFound", dir |-> "", ext |-> ""]
IsOk(s) == s.code = "OK"

\* The statuses of a point lookup in an open table: the key was looked up
\* (found or not), or a block could not be read.
InternalGetStatus == {OK, [code |-> "Corruption", dir |-> "", ext |-> "block"]}

\* ------------------------------------------------------------- file names
TableFileName(dir, number) == [dir |-> dir, number |-> number, ext |-> "ldb"]
SSTTableFileName(dir, number) == [dir |-> dir, number |-> number, ext |-> "sst"]
NoFile == [dir |-> "", number |-> 0, ext |-> ""]

\* ------------------------------------------------------------- filesystem
\* What one directory holds for one file number.  A number has at most one
\* physical file in a directory, under one of the two names.
FileStates == {"none", "ldb", "sst", "ldb_bad", "sst_bad", "ldb_eio"}

\* env_->NewRandomAccessFile(fname, &file)
NewRandomAccessFile(fname) ==
    LET st == fs[fname.dir][fname.number] IN
    IF (fname.ext = "ldb" /\ st \in {"ldb", "ldb_bad"})
       \/ (fname.ext = "sst" /\ st \in {"sst", "sst_bad"})
    THEN [s |-> OK, file |-> fname]
    ELSE IF fname.ext = "ldb" /\ st = "ldb_eio"
    THEN [s |-> [code |-> "IOError", dir |-> fname.dir, ext |-> fname.ext],
          file |-> NoFile]
    ELSE [s |-> [code |-> "NotFound", dir |-> fname.dir, ext |-> fname.ext],
          file |-> NoFile]

\* Table::Open(options_, file, file_size, &table)
TableOpen(file, file_size) ==
    IF fs[file.dir][file.number] \in {"ldb", "sst"} /\ file_size = 4
    THEN OK
    ELSE [code |-> "Corruption", dir |-> file.dir, ext |-> file.ext]

\* ------------------------------------------------------------- cache key
\* EncodeFixed64(buf, value): eight bytes, least significant first.
RECURSIVE Bytes(_, _)
Bytes(value, n) ==
    IF n = 0 THEN <<>> ELSE <<value % 256>> \o Bytes(value \div 256, n - 1)

EncodeFixed64(value) == Bytes(value, 8)

\* ------------------------------------------------------------- the LRU cache
\* A cache state is [E |-> entries, L |-> lru].  An entry's refs counts the
\* cache's own reference and the handles handed out.
RECURSIVE TotalCharge(_, _)
TotalCharge(E, k) ==
    IF k = 0 THEN 0
    ELSE TotalCharge(E, k - 1) + (IF E[k].in_cache THEN E[k].charge ELSE 0)

\* usage_: the charges of the entries in the cache
Usage(c) == TotalCharge(c.E, Len(c.E))

LRU_Remove(L, e) == SelectSeq(L, LAMBDA x : x # e)

\* DeleteEntry(key, value): delete tf->table; delete tf->file; delete tf
DeleteEntry(ent) == [ent EXCEPT !.deleted = @ + 1]

\* LRUCache::Unref
Unref(c, e) ==
    IF c.E[e].refs <= 1
    THEN [E |-> [c.E EXCEPT ![e] = DeleteEntry([@ EXCEPT !.refs = 0])], L |-> c.L]
    ELSE IF c.E[e].in_cache /\ c.E[e].refs = 2
    THEN [E |-> [c.E EXCEPT ![e].refs = 1], L |-> Append(c.L, e)]
    ELSE [E |-> [c.E EXCEPT ![e].refs = @ - 1], L |-> c.L]

\* LRUCache::Ref
Ref(c, e) ==
    [E |-> [c.E EXCEPT ![e].refs = @ + 1],
     L |-> IF c.E[e].refs = 1 /\ c.E[e].in_cache THEN LRU_Remove(c.L, e) ELSE c.L]

\* The node the hash table holds for key, 0 when none.
TableLookup(E, key) ==
    LET S == {e \in 1..Len(E) : E[e].in_cache /\ E[e].key = key} IN
    IF S = {} THEN 0 ELSE CHOOSE e \in S : TRUE

\* LRUCache::FinishErase
FinishErase(c, e, why) ==
    IF e = 0 THEN c
    ELSE Unref([E |-> [c.E EXCEPT ![e].in_cache = FALSE, ![e].removed = why],
                L |-> LRU_Remove(c.L, e)], e)

\* Cache::Lookup: [c |-> the cache afterwards, h |-> the handle, 0 for nullptr]
Lookup(c, key) ==
    LET e == TableLookup(c.E, key) IN
    IF e = 0 THEN [c |-> c, h |-> 0] ELSE [c |-> Ref(c, e), h |-> e]

\* Cache::Release
Release(c, h) == Unref(c, h)

RECURSIVE EvictOverflow(_)
EvictOverflow(c) ==
    IF Usage(c) > Capacity /\ c.L # <<>>
    THEN EvictOverflow(FinishErase(c, Head(c.L), "capacity"))
    ELSE c

\* Cache::Insert(key, value, charge, &DeleteEntry): the new entry is Len(E) + 1
Insert(c, key, tf, charge) ==
    LET old == TableLookup(c.E, key)
        node == [key |-> key, file |-> tf.file, table |-> tf.table, refs |-> 2,
                 charge |-> charge, in_cache |-> TRUE, deleted |-> 0, removed |-> ""]
    IN EvictOverflow(FinishErase([E |-> Append(c.E, node), L |-> c.L], old, "replaced"))

\* Cache::Erase
Erase(c, key) == FinishErase(c, TableLookup(c.E, key), "erased")

\* LRUCache::~LRUCache: every node left is on lru_ and is unreferenced
RECURSIVE DestroyCache(_)
DestroyCache(c) ==
    IF c.L = <<>> THEN c
    ELSE DestroyCache(FinishErase(c, Head(c.L), "destroyed"))

\* ------------------------------------------------------------- FindTable
\* Mutant of CacheKey: the lowest bit of the file number is dropped.
CacheKeyNoLowBit(file_number) == EncodeFixed64(file_number \div 2)

\* char buf[8]; EncodeFixed64(buf, file_number); Slice key(buf, sizeof(buf))
CacheKey(file_number) == EncodeFixed64(file_number)

\* Mutant of IsMiss: the result of the lookup is ignored.
AlwaysMiss(handle) == TRUE

\* if (*handle == nullptr)
IsMiss(handle) == handle = 0

\* Mutant of push_unique_dir: a directory already in the path is added again.
push_dir(search_dirs, dir) ==
    IF dir = "" THEN search_dirs ELSE Append(search_dirs, dir)

\* push_unique_dir
push_unique_dir(search_dirs, dir) ==
    IF dir = "" THEN search_dirs
    ELSE IF \E k \in 1..Len(search_dirs) : search_dirs[k] = dir THEN search_dirs
    ELSE Append(search_dirs, dir)

\* Mutant of PushDataDirs: the data directories in the configured order.
RECURSIVE PushDataDirsFromFirst(_, _, _, _)
PushDataDirsFromFirst(search_dirs, data_dirs, start, i) ==
    IF i >= Len(data_dirs) THEN search_dirs
    ELSE PushDataDirsFromFirst(push_unique_dir(search_dirs, data_dirs[i + 1]),
                               data_dirs, start, i + 1)

\* for (i = 0; i < n; ++i) push_unique_dir(data_dirs[(start + i) % n])
RECURSIVE PushDataDirs(_, _, _, _)
PushDataDirs(search_dirs, data_dirs, start, i) ==
    IF i >= Len(data_dirs) THEN search_dirs
    ELSE PushDataDirs(
             push_unique_dir(search_dirs, data_dirs[((start + i) % Len(data_dirs)) + 1]),
             data_dirs, start, i + 1)

\* Mutant of UseDataDirs: enable_multi_disk is not looked at.
UseDataDirsWhenGiven == options_.data_dirs # <<>>

\* if (options_.enable_multi_disk && !options_.data_dirs.empty())
UseDataDirs == options_.enable_multi_disk /\ options_.data_dirs # <<>>

\* Mutant of SearchDirs: the rotation starts further on for each table the
\* cache has opened.
SearchDirsByLoad(file_number) ==
    LET fromData ==
            IF UseDataDirs
            THEN PushDataDirs(<<>>, options_.data_dirs,
                              (file_number + Len(entries)) % Len(options_.data_dirs), 0)
            ELSE <<>>
    IN push_unique_dir(fromData, dbname_)

\* The search path of a file number.
SearchDirs(file_number) ==
    LET fromData ==
            IF UseDataDirs
            THEN PushDataDirs(<<>>, options_.data_dirs,
                              file_number % Len(options_.data_dirs), 0)
            ELSE <<>>
    IN push_unique_dir(fromData, dbname_)

\* Mutant of OpenTableFile: the legacy name is never tried.
OpenLdbOnly(dir, file_number) ==
    LET fname == TableFileName(dir, file_number)
        r == NewRandomAccessFile(fname)
    IN [s |-> r.s, file |-> r.file, tried |-> <<fname>>]

\* The two opens of one loop iteration: [s, file, tried]
OpenTableFile(dir, file_number) ==
    LET fname == TableFileName(dir, file_number)
        r == NewRandomAccessFile(fname)
        old_fname == SSTTableFileName(dir, file_number)
        r2 == NewRandomAccessFile(old_fname)
    IN IF IsOk(r.s) THEN [s |-> r.s, file |-> r.file, tried |-> <<fname>>]
       ELSE IF IsOk(r2.s) THEN [s |-> OK, file |-> r2.file, tried |-> <<fname, old_fname>>]
       ELSE [s |-> r.s, file |-> r2.file, tried |-> <<fname, old_fname>>]

\* Mutant of RecordFailure: the first failure is kept.
RecordFirstFailure(last_status, s) ==
    IF last_status = NotFoundInitial THEN s ELSE last_status

\* last_status = s
RecordFailure(last_status, s) == s

\* Mutant of LoopDone: the loop gives up after its first directory.
LoopDoneAfterFirst(idx, search_dirs) == idx > 1

\* for (const std::string& dir : search_dirs): the loop ends after the last one.
LoopDone(idx, search_dirs) == idx > Len(search_dirs)

\* Mutant of FoundTable: a table that opened and parsed does not end the search.
KeepsSearching(s) == FALSE

\* if (s.ok()), line 94: the table opened and parsed, the search is over.
FoundTable(s) == IsOk(s)

\* Mutant of DeleteFile: the file of a failed directory stays open.
KeepFile(closedf, nopened) == closedf

\* delete file, line 104: the files this call has closed, after the file
\* of a directory that failed (nopened of them, none when no open worked).
DeleteFile(closedf, nopened) == closedf + nopened

\* FindTable, lines 77-109: the loop over search_dirs from element idx on,
\* on the locals c of the call.  It reads the filesystem only, which no
\* step of the model changes.  The result is c with the status s the loop
\* leaves and, when a directory worked, the file it opened.
RECURSIVE SearchLoop(_, _)
SearchLoop(c, idx) ==
    IF LoopDone(idx, c.search_dirs)
    THEN [c EXCEPT !.s = c.last_status, !.idx = idx]
    ELSE LET dir == c.search_dirs[idx]
             o == OpenTableFile(dir, c.file_number)
             parsed == IsOk(o.s)
             s2 == IF parsed THEN TableOpen(o.file, c.file_size) ELSE o.s
             nopened == IF o.file # NoFile THEN 1 ELSE 0
             seen == [c EXCEPT !.tried = @ \o o.tried,
                               !.probed = Append(@, dir),
                               !.parses = @ + (IF parsed THEN 1 ELSE 0),
                               !.opened = @ + nopened,
                               !.idx = idx]
         IN IF FoundTable(s2)
            THEN [seen EXCEPT !.s = s2, !.file = o.file]
            ELSE SearchLoop([seen EXCEPT !.closedf = DeleteFile(@, nopened),
                                         !.last_status = RecordFailure(@, s2)],
                            idx + 1)

\* ------------------------------------------------------------- thread locals
IdleCall ==
    [op |-> "none", file_number |-> 0, file_size |-> 0, handle |-> 0, s |-> OK,
     search_dirs |-> <<>>, idx |-> 0, last_status |-> OK, file |-> NoFile,
     tried |-> <<>>, probed |-> <<>>, parses |-> 0, opened |-> 0, closedf |-> 0, hit |-> FALSE, created |-> 0,
     expectLast |-> 0, expectFirst |-> 0, firstSeen |-> 0, evicted |-> FALSE,
     found |-> OK]

Min(S) == CHOOSE x \in S : \A y \in S : x <= y

FreeIter == [state |-> "free", status |-> OK, table |-> 0, cleanup |-> 0,
             tableptr |-> 0, started |-> FALSE]

NumDeleted(E) == Cardinality({e \in 1..Len(E) : E[e].deleted > 0})

Cache == [E |-> entries, L |-> lru]

InSearch == Cardinality({t \in Threads : pc[t] \in {"search", "insert"}})

ItersWanted ==
    Cardinality({i \in 1..MaxIters : iters[i].state # "free"})
    + Cardinality({t \in Threads : call[t].op = "NewIterator"})

\* The entries of S still in the cache E.
StillCached(S, E) == {e \in S : E[e].in_cache}

\* The entries that left the cache between E and E2.
LeftCache(E, E2) == {e \in 1..Len(E) : E[e].in_cache /\ ~E2[e].in_cache}

\* FindTable, lines 45-71: the cache lookup and, on a miss, the search path.
FindTableLookup(t, op, file_number, file_size) ==
    LET key == CacheKey(file_number)
        r == Lookup(Cache, key)
        miss == IsMiss(r.h)
        dirs == SearchDirs(file_number)
        base == [IdleCall EXCEPT
                   !.op = op, !.file_number = file_number, !.file_size = file_size,
                   !.expectLast = last[file_number],
                   !.expectFirst = IF first[file_number] # 0
                                      /\ entries[first[file_number]].in_cache
                                   THEN first[file_number] ELSE 0]
    IN /\ ~closed
       /\ pc[t] = "idle"
       /\ op = "NewIterator" => ItersWanted < MaxIters
       /\ miss => Len(entries) + InSearch < MaxEntries
       /\ entries' = r.c.E
       /\ lru' = r.c.L
       /\ IF ~miss
          THEN /\ pc' = [pc EXCEPT ![t] = "ret"]
               /\ call' = [call EXCEPT ![t] = [base EXCEPT !.handle = r.h, !.hit = TRUE,
                                          !.firstSeen = first[file_number]]]
               /\ first' = [first EXCEPT ![file_number] = IF @ = 0 THEN r.h ELSE @]
               /\ last' = [last EXCEPT ![file_number] = r.h]
          ELSE /\ pc' = [pc EXCEPT ![t] = "search"]
               /\ call' = [call EXCEPT ![t] = [base EXCEPT !.search_dirs = dirs]]
               /\ UNCHANGED <<first, last>>
       /\ stale' = stale
       /\ UNCHANGED <<options_, fs, closed, iters, openFiles, usedDeleted>>

\* FindTable, lines 73-92 and 103-109, after a miss: the directory loop.
FindTableSearch(t) ==
    LET c == call[t]
        r == SearchLoop([c EXCEPT !.last_status = NotFoundInitial], 1)
    IN /\ pc[t] = "search"
       /\ call' = [call EXCEPT ![t] = r]
       /\ openFiles' = openFiles + r.opened - r.closedf
       /\ pc' = [pc EXCEPT ![t] = IF IsOk(r.s) THEN "insert" ELSE "ret"]
       /\ UNCHANGED <<options_, fs, entries, lru, closed, iters, usedDeleted,
                      first, last, stale>>

\* FindTable, lines 94-100: the insert of the pair the loop opened.
FindTableInsert(t) ==
    LET c == call[t]
        tf == [file |-> c.file, table |-> c.file]
        ins == Insert(Cache, CacheKey(c.file_number), tf, 1)
        e == Len(entries) + 1
        gone == LeftCache(entries, ins.E)
    IN /\ pc[t] = "insert"
       /\ entries' = ins.E
       /\ lru' = ins.L
       /\ openFiles' = openFiles - (NumDeleted(ins.E) - NumDeleted(entries))
       /\ call' = [call EXCEPT ![t] = [c EXCEPT !.handle = e, !.created = e,
                               !.evicted = FALSE,
                               !.firstSeen = first[c.file_number]]]
       /\ first' = [first EXCEPT ![c.file_number] = IF @ = 0 THEN e ELSE @]
       /\ last' = [m \in FileNumbers |->
                     IF m = c.file_number THEN e
                     ELSE IF last[m] \in gone THEN 0 ELSE last[m]]
       /\ stale' = StillCached(IF c.evicted THEN stale \cup {e} ELSE stale, ins.E)
       /\ pc' = [pc EXCEPT ![t] = "ret"]
       /\ UNCHANGED <<options_, fs, closed, iters, usedDeleted>>

\* ------------------------------------------------------------- Get
\* Mutant of GetLookupAndRelease: the handle is released before the read.
GetReleaseThenLookup(c, handle) ==
    LET c2 == Release(c, handle) IN [used |-> c2.E[handle].deleted > 0, c |-> c2]

\* Mutant of GetLookupAndRelease: the handle is never released.
GetLookupNoRelease(c, handle) == [used |-> c.E[handle].deleted > 0, c |-> c]

\* Get, lines 143-145: read the table, then release the handle.
\* [used |-> the table read was a deleted one, c |-> the cache afterwards]
GetLookupAndRelease(c, handle) ==
    [used |-> c.E[handle].deleted > 0, c |-> Release(c, handle)]

\* Mutant of GetStatus: a failure of FindTable is reported as success.
GetStatusOk(s, looked) == looked

\* Get, lines 141-147: the status Get returns, s being the status of
\* FindTable and looked the status of the point lookup.
GetStatus(s, looked) == IF IsOk(s) THEN looked ELSE s

\* Get, lines 136-148, once FindTable has returned; looked is the status of
\* t->InternalGet.  The thread keeps what FindTable and Get returned in
\* found and s until its next call.
GetFinish(t, looked) ==
    LET r == GetLookupAndRelease(Cache, call[t].handle) IN
    /\ pc[t] = "ret"
    /\ call[t].op = "Get"
    /\ IF IsOk(call[t].s)
       THEN /\ entries' = r.c.E
            /\ lru' = r.c.L
            /\ usedDeleted' = (usedDeleted \/ r.used)
            /\ openFiles' = openFiles - (NumDeleted(r.c.E) - NumDeleted(entries))
       ELSE UNCHANGED <<entries, lru, usedDeleted, openFiles>>
    /\ pc' = [pc EXCEPT ![t] = "idle"]
    /\ call' = [call EXCEPT ![t] = [IdleCall EXCEPT
                                       !.s = GetStatus(call[t].s, looked),
                                       !.found = call[t].s]]
    /\ stale' = stale
    /\ UNCHANGED <<options_, fs, closed, iters, first, last>>

\* ------------------------------------------------------------- NewIterator
\* Mutant of RegisterCleanup: no cleanup is registered.
RegisterNothing(handle) == 0

\* result->RegisterCleanup(&UnrefEntry, cache_, handle): the handle the
\* iterator releases when it is destroyed.
RegisterCleanup(handle) == handle

\* Mutant of NewErrorIterator: the failure is handed out as an empty iterator.
NewEmptyIterator(s) ==
    [state |-> "error", status |-> OK, table |-> 0, cleanup |-> 0,
     tableptr |-> 0, started |-> FALSE]

\* return NewErrorIterator(s), with *tableptr = nullptr
NewErrorIterator(s) ==
    [state |-> "error", status |-> s, table |-> 0, cleanup |-> 0,
     tableptr |-> 0, started |-> FALSE]

FreeSlot == Min({i \in 1..MaxIters : iters[i].state = "free"})

\* NewIterator, lines 123-133, once FindTable has returned.
NewIteratorFinish(t) ==
    LET c == call[t]
        it == IF IsOk(c.s)
              THEN [state |-> "live", status |-> OK, table |-> c.handle,
                    cleanup |-> RegisterCleanup(c.handle), tableptr |-> c.handle,
                    started |-> FALSE]
              ELSE NewErrorIterator(c.s)
    IN /\ pc[t] = "ret"
       /\ c.op = "NewIterator"
       /\ \E i \in 1..MaxIters : iters[i].state = "free"
       /\ iters' = [iters EXCEPT ![FreeSlot] = it]
       /\ pc' = [pc EXCEPT ![t] = "idle"]
       /\ call' = [call EXCEPT ![t] = IdleCall]
       /\ stale' = stale
       /\ UNCHANGED <<options_, fs, entries, lru, closed, openFiles, usedDeleted,
                      first, last>>

\* A read through a live iterator (Seek, Next, ...) reads its table.
IterStep(i) ==
    /\ iters[i].state = "live"
    /\ iters' = [iters EXCEPT ![i].started = TRUE]
    /\ usedDeleted' = (usedDeleted \/ entries[iters[i].table].deleted > 0)
    /\ stale' = stale
    /\ UNCHANGED <<options_, fs, entries, lru, closed, pc, call, openFiles, first, last>>

\* Mutant of UnrefEntry: the cleanup releases nothing.
UnrefNothing(c, h) == c

\* UnrefEntry(arg1, arg2): cache->Release(h)
UnrefEntry(c, h) == Release(c, h)

\* The iterator is destroyed and runs the cleanup registered with it.
IterDelete(i) ==
    LET c2 == IF iters[i].cleanup # 0 THEN UnrefEntry(Cache, iters[i].cleanup)
              ELSE Cache
    IN /\ iters[i].state # "free"
       /\ iters' = [k \in 1..MaxIters |->
                      IF k < i THEN iters[k]
                      ELSE IF k < MaxIters THEN iters[k + 1] ELSE FreeIter]
       /\ entries' = c2.E
       /\ lru' = c2.L
       /\ openFiles' = openFiles - (NumDeleted(c2.E) - NumDeleted(entries))
       /\ stale' = stale
       /\ UNCHANGED <<options_, fs, closed, pc, call, usedDeleted, first, last>>

\* ------------------------------------------------------------- Evict
\* Mutant of EvictKey: the key of file number 0, whatever the number.
EvictKeyOfZero(file_number) == EncodeFixed64(0)

\* Mutant of EvictKey: the key of the next file number.
EvictKeyOfNext(file_number) == EncodeFixed64(file_number + 1)

\* char buf[8]; EncodeFixed64(buf, file_number)
EvictKey(file_number) == EncodeFixed64(file_number)

\* Evict, lines 150-154
Evict(file_number) ==
    LET c2 == Erase(Cache, EvictKey(file_number)) IN
    /\ ~closed
    /\ \E t \in Threads : pc[t] = "idle"
    /\ entries' = c2.E
    /\ lru' = c2.L
    /\ openFiles' = openFiles - (NumDeleted(c2.E) - NumDeleted(entries))
    /\ first' = [first EXCEPT ![file_number] = 0]
    /\ last' = [m \in FileNumbers |->
                  IF m = file_number \/ last[m] \in LeftCache(entries, c2.E)
                  THEN 0 ELSE last[m]]
    /\ stale' = StillCached(stale, c2.E)
    /\ call' = [u \in Threads |->
                  IF pc[u] = "insert" /\ call[u].file_number = file_number
                  THEN [call[u] EXCEPT !.evicted = TRUE] ELSE call[u]]
    /\ UNCHANGED <<options_, fs, closed, pc, iters, usedDeleted>>

\* ------------------------------------------------------------- ~TableCache
\* ~TableCache, line 41: delete cache_.  The cache is destroyed once no
\* call is running and every iterator is gone.
Shutdown ==
    LET c2 == DestroyCache(Cache) IN
    /\ ~closed
    /\ \A t \in Threads : pc[t] = "idle"
    /\ \A i \in 1..MaxIters : iters[i].state = "free"
    /\ closed' = TRUE
    /\ entries' = c2.E
    /\ lru' = c2.L
    /\ openFiles' = openFiles - (NumDeleted(c2.E) - NumDeleted(entries))
    /\ last' = [m \in FileNumbers |-> 0]
    /\ stale' = StillCached(stale, c2.E)
    /\ UNCHANGED <<options_, fs, pc, call, iters, usedDeleted, first>>

\* ------------------------------------------------------------- behaviours
InitCommon ==
    /\ entries = <<>>
    /\ lru = <<>>
    /\ closed = FALSE
    /\ pc = [t \in Threads |-> "idle"]
    /\ call = [t \in Threads |-> IdleCall]
    /\ iters = [i \in 1..MaxIters |-> FreeIter]
    /\ openFiles = 0
    /\ usedDeleted = FALSE
    /\ first = [n \in FileNumbers |-> 0]
    /\ last = [n \in FileNumbers |-> 0]
    /\ stale = {}

\* The layouts of the concurrent runs, over the data directories A and B
\* and the main directory P.
Layout(a0, b0, p0, a1, b1, p1) ==
    [d \in Dirs |-> [n \in FileNumbers |->
        IF d = "A" THEN (IF n = 0 THEN a0 ELSE a1)
        ELSE IF d = "B" THEN (IF n = 0 THEN b0 ELSE b1)
        ELSE (IF n = 0 THEN p0 ELSE p1)]]

Layouts ==
    { Layout("none", "ldb", "none", "sst", "none", "none"),
      Layout("ldb_bad", "none", "ldb", "none", "none", "none") }

Init ==
    /\ options_ = [enable_multi_disk |-> TRUE, data_dirs |-> <<"A", "B">>]
    /\ fs \in Layouts
    /\ InitCommon

Next ==
    \/ \E t \in Threads, n \in FileNumbers :
           FindTableLookup(t, "Get", n, 4)
    \/ \E t \in Threads, n \in FileNumbers :
           FindTableLookup(t, "NewIterator", n, 4)
    \/ \E t \in Threads : FindTableSearch(t)
    \/ \E t \in Threads : FindTableInsert(t)
    \/ \E t \in Threads : GetFinish(t, OK)
    \/ \E t \in Threads : NewIteratorFinish(t)
    \/ \E i \in 1..MaxIters : IterStep(i)
    \/ \E i \in 1..MaxIters : IterDelete(i)
    \/ \E n \in FileNumbers : Evict(n)
    \/ Shutdown

Spec == Init /\ [][Next]_vars

\* ------------------------------------------------------------- resolution runs
\* One caller, every list of data directories with multi-directory mode on,
\* three lists with the mode off (when data_dirs is not read), and every
\* layout of the directories (the same for each file number).
DataDirNames == {"", "A", "B", "P"}

DataDirLists == UNION {[1..k -> DataDirNames] : k \in 0..MaxDataDirs}

DataDirListsUnused == {<<>>, <<"A">>, <<"A", "B">>}

InitResolve ==
    /\ options_ \in [enable_multi_disk : {TRUE}, data_dirs : DataDirLists]
                     \cup [enable_multi_disk : {FALSE}, data_dirs : DataDirListsUnused]
    /\ \E a \in FileStates, b \in FileStates, p \in FileStates :
           fs = Layout(a, b, p, a, b, p)
    /\ InitCommon

NextResolve ==
    \/ \E n \in FileNumbers, file_size \in Sizes :
           FindTableLookup("t1", "Get", n, file_size)
    \/ FindTableSearch("t1")
    \/ FindTableInsert("t1")
    \/ \E looked \in InternalGetStatus : GetFinish("t1", looked)

SpecResolve == InitResolve /\ [][NextResolve]_vars

\* ------------------------------------------------------------- properties
\* The reference handles to entry e that are outstanding: held by a call
\* whose FindTable returned it, or registered with an iterator.
Holders(e) ==
    Cardinality({t \in Threads : pc[t] = "ret" /\ IsOk(call[t].s) /\ call[t].handle = e})
    + Cardinality({i \in 1..MaxIters : iters[i].cleanup = e})

Entries == 1..Len(entries)

NumberOf(e) == entries[e].file.number

\* The file the directory holds for the number opens and parses.
GoodDir(dir, file_number, file_size) ==
    fs[dir][file_number] \in {"ldb", "sst"} /\ file_size = 4

\* C1: a FindTable(id) issued after a successful FindTable(id), with no
\* Evict(id) and no capacity eviction of id in between, returns a handle to
\* the same cached entry, opens no file and parses no table.
C1_SecondFindTableHits ==
    \A t \in Threads :
        call[t].expectLast # 0 =>
            /\ pc[t] = "ret"
            /\ call[t].hit
            /\ IsOk(call[t].s)
            /\ call[t].handle = call[t].expectLast
            /\ entries[call[t].handle].deleted = 0
            /\ call[t].tried = <<>>
            /\ call[t].opened = 0
            /\ call[t].parses = 0
            /\ call[t].created = 0

C1_Witness ==
    \E t \in Threads :
        /\ pc[t] = "ret"
        /\ call[t].expectLast # 0
        /\ call[t].handle = call[t].expectLast
        /\ call[t].tried = <<>>

\* C2: on a miss FindTable succeeds exactly when a directory of the search
\* path holds a file for the number that opens and parses; the entry is
\* built from the first such directory, the earlier ones having been
\* probed and skipped.
C2_MissResolvesFirstGoodDir ==
    \A t \in Threads :
        (pc[t] = "ret" /\ ~call[t].hit) =>
            LET c == call[t]
                good == {k \in 1..Len(c.search_dirs) :
                            GoodDir(c.search_dirs[k], c.file_number, c.file_size)}
            IN /\ IsOk(c.s) <=> good # {}
               /\ IsOk(c.s) =>
                    /\ c.handle \in Entries
                    /\ entries[c.handle].file.dir = c.search_dirs[Min(good)]
                    /\ NumberOf(c.handle) = c.file_number
                    /\ c.probed = SubSeq(c.search_dirs, 1, Min(good))

C2_Witness ==
    \E t \in Threads :
        /\ pc[t] = "ret"
        /\ ~call[t].hit
        /\ IsOk(call[t].s)
        /\ call[t].search_dirs = <<"A", "B", "P">>
        /\ fs["A"][call[t].file_number] = "ldb_bad"
        /\ fs["B"][call[t].file_number] = "none"
        /\ entries[call[t].handle].file.dir = "P"

\* C3: in each directory the .ldb name is tried first and the .sst name
\* only after the .ldb open failed; a file that exists only under the
\* legacy name in a probed directory resolves.
C3_LegacyNameFallback ==
    \A t \in Threads :
        (pc[t] = "ret" /\ ~call[t].hit) =>
            LET c == call[t]
                tr == c.tried
            IN /\ \A k \in 1..Len(tr) :
                    /\ tr[k].ext = "sst" =>
                         /\ k > 1
                         /\ tr[k - 1] = TableFileName(tr[k].dir, tr[k].number)
                         /\ ~IsOk(NewRandomAccessFile(tr[k - 1]).s)
                    /\ (tr[k].ext = "ldb" /\ ~IsOk(NewRandomAccessFile(tr[k]).s)) =>
                         /\ k < Len(tr)
                         /\ tr[k + 1] = SSTTableFileName(tr[k].dir, tr[k].number)
               /\ \A k \in 1..Len(c.probed) :
                    \E j \in 1..Len(tr) : tr[j] = TableFileName(c.probed[k], c.file_number)
               /\ \A k \in 1..Len(c.probed) :
                    (fs[c.probed[k]][c.file_number] = "sst" /\ c.file_size = 4) =>
                        /\ IsOk(c.s)
                        /\ k = Len(c.probed)
                        /\ entries[c.handle].file = SSTTableFileName(c.probed[k], c.file_number)

C3_Witness ==
    \E t \in Threads :
        /\ pc[t] = "ret"
        /\ IsOk(call[t].s)
        /\ call[t].created # 0
        /\ entries[call[t].handle].file.ext = "sst"
        /\ Len(call[t].tried) = 2

\* C4: when every directory fails, the status returned is the one of the
\* last directory probed, which is the last of the search path.
C4_LastFailureReturned ==
    \A t \in Threads :
        (pc[t] = "ret" /\ ~call[t].hit /\ ~IsOk(call[t].s)) =>
            LET c == call[t]
                lastDir == c.search_dirs[Len(c.search_dirs)]
                st == fs[lastDir][c.file_number]
            IN /\ c.search_dirs # <<>>
               /\ c.probed = c.search_dirs
               /\ c.s.dir = lastDir
               /\ c.s.code = (IF st = "none" THEN "NotFound"
                              ELSE IF st = "ldb_eio" THEN "IOError"
                              ELSE "Corruption")

C4_Witness ==
    \E t \in Threads :
        /\ pc[t] = "ret"
        /\ ~call[t].hit
        /\ call[t].search_dirs = <<"A", "B", "P">>
        /\ fs["A"][call[t].file_number] = "ldb_bad"
        /\ fs["B"][call[t].file_number] = "none"
        /\ fs["P"][call[t].file_number] = "none"
        /\ call[t].s = [code |-> "NotFound", dir |-> "P", ext |-> "ldb"]

\* C5: DeleteEntry never runs on an entry while a reference handle to it
\* is outstanding, whatever Release, Evict or capacity eviction did; it
\* runs only after the entry left the cache and its last handle was
\* released, so no table read by Get or by an iterator is a deleted one.
C5_NoDeleteWhileReferenced ==
    /\ ~usedDeleted
    /\ \A e \in Entries :
          /\ Holders(e) > 0 => entries[e].deleted = 0
          /\ entries[e].deleted > 0 => (~entries[e].in_cache /\ Holders(e) = 0)

C5_Witness ==
    \E e \in Entries :
        /\ entries[e].removed = "erased"
        /\ Holders(e) > 0
        /\ entries[e].deleted = 0
        /\ \E i \in 1..MaxIters : iters[i].cleanup = e /\ iters[i].started

\* C6: DeleteEntry runs at most once on an entry, and has run once as
\* soon as the entry is out of the cache (erased, evicted, replaced or the
\* cache destroyed) with no handle outstanding; the files open are those
\* of the entries not yet deleted and those a FindTable is about to insert.
C6_DeletedExactlyOnce ==
    /\ \A e \in Entries :
          /\ entries[e].deleted <= 1
          /\ (~entries[e].in_cache /\ Holders(e) = 0) => entries[e].deleted = 1
    /\ openFiles = Cardinality({e \in Entries : entries[e].deleted = 0})
                   + Cardinality({t \in Threads : pc[t] = "insert"})
    /\ (closed /\ \A t \in Threads : pc[t] = "idle") =>
           \A e \in Entries : entries[e].deleted = 1

C6_Witness ==
    /\ closed
    /\ \E e \in Entries : entries[e].removed = "destroyed" /\ entries[e].deleted = 1
    /\ \E e \in Entries : entries[e].removed = "erased" /\ entries[e].deleted = 1

\* C7: right after Evict(id) no entry is cached for id, so the FindTable(id)
\* that directly follows misses; and a FindTable that missed has run the
\* directory search, and what it returns on success is the entry it has
\* just opened and inserted, not one cached before.
C7_EvictThenFindTableReopens ==
    /\ [][\A n \in FileNumbers :
             Evict(n) => IsMiss(TableLookup(entries', CacheKey(n)))]_vars
    /\ [](\A t \in Threads :
             (pc[t] = "ret" /\ ~call[t].hit) =>
                 /\ call[t].tried # <<>>
                 /\ IsOk(call[t].s) =>
                      /\ call[t].handle = call[t].created
                      /\ call[t].created # 0
                      /\ entries[call[t].handle].deleted = 0
                      /\ NumberOf(call[t].handle) = call[t].file_number)

C7_Witness ==
    \E t \in Threads :
        /\ pc[t] = "ret"
        /\ ~call[t].hit
        /\ IsOk(call[t].s)
        /\ \E e \in Entries :
              /\ e < call[t].handle
              /\ NumberOf(e) = call[t].file_number
              /\ entries[e].removed = "erased"
              /\ Holders(e) > 0

\* C8, as stated: once a FindTable(id) has succeeded, every FindTable(id)
\* that completes before the next Evict(id) returns that same entry.
C8_AsStated ==
    \A t \in Threads :
        (pc[t] = "ret" /\ IsOk(call[t].s) /\ call[t].firstSeen # 0) =>
            call[t].handle = call[t].firstSeen

\* C8, amended: once a FindTable(id) has succeeded, every FindTable(id)
\* that starts while that entry is still in the cache hits and returns it;
\* before Evict(id) the entry leaves the cache only by capacity eviction,
\* by the insert of a FindTable(id) that had missed before, or with the cache.
C8_SameEntryWhileCached ==
    /\ \A t \in Threads :
          call[t].expectFirst # 0 =>
              /\ pc[t] = "ret"
              /\ call[t].hit
              /\ call[t].handle = call[t].expectFirst
    /\ \A n \in FileNumbers :
          (first[n] # 0 /\ ~entries[first[n]].in_cache) =>
              entries[first[n]].removed \in {"capacity", "replaced", "destroyed"}

C8_Witness ==
    \E t \in Threads, u \in Threads :
        /\ t # u
        /\ pc[t] = "ret" /\ call[t].expectFirst # 0
        /\ call[t].handle = call[t].expectFirst
        /\ pc[u] = "ret" /\ call[u].handle = call[t].handle
        /\ call[u].created = call[u].handle

\* C9, as stated: at most one entry that is not yet deleted exists per
\* file number.
C9_AsStated ==
    \A n \in FileNumbers :
        Cardinality({e \in Entries : NumberOf(e) = n /\ entries[e].deleted = 0}) <= 1

\* C9, amended: at most one entry per file number is in the cache; every
\* other entry not yet deleted is out of the cache with a handle outstanding.
C9_OneCachedEntryPerNumber ==
    /\ \A n \in FileNumbers :
          Cardinality({e \in Entries : NumberOf(e) = n /\ entries[e].in_cache}) <= 1
    /\ \A e \in Entries :
          (entries[e].deleted = 0 /\ ~entries[e].in_cache) => Holders(e) > 0

C9_Witness ==
    \E e \in Entries, f \in Entries :
        /\ e # f
        /\ NumberOf(e) = NumberOf(f)
        /\ entries[e].deleted = 0 /\ ~entries[e].in_cache /\ Holders(e) > 0
        /\ entries[f].in_cache

\* C10: when two FindTable(id) calls both missed and both inserted, the
\* entry inserted first is no longer in the cache, at most one entry of
\* the key is, every handle held names an entry not deleted, and the
\* replaced entry is deleted once no handle to it is left.
C10_RaceLoserDestroyed ==
    /\ \A e \in Entries :
          entries[e].removed = "replaced" =>
              /\ ~entries[e].in_cache
              /\ Cardinality({x \in Entries : entries[x].key = entries[e].key
                                               /\ entries[x].in_cache}) <= 1
              /\ Holders(e) > 0 => entries[e].deleted = 0
              /\ Holders(e) = 0 => entries[e].deleted = 1
    /\ \A t \in Threads :
          (pc[t] = "ret" /\ IsOk(call[t].s)) => entries[call[t].handle].deleted = 0

C10_Witness ==
    \E e \in Entries :
        /\ entries[e].removed = "replaced"
        /\ entries[e].deleted = 1
        /\ \E x \in Entries : x # e /\ entries[x].key = entries[e].key

\* C11: whatever the interleaving of FindTable(id) calls with Evict(id), a
\* FindTable(id) that starts after Evict(id) was called never resolves to
\* an entry whose file was opened before that Evict: the lookup of a
\* starting call never hits an entry of `stale`.
C11_NoLookupOfInvalidatedFile ==
    [][\A t \in Threads :
          (pc[t] = "idle" /\ pc'[t] = "ret") => call'[t].handle \notin stale]_vars

\* C12: Get releases the handle FindTable gave it exactly once, whatever
\* the status of the point lookup, so the references of an entry are the
\* cache's own and those of the calls and iterators still holding it, and
\* a Get that returned holds none; a failed FindTable gave no handle, and
\* Get returns the status of a failed FindTable as it is.
C12_GetReleasesOnce ==
    /\ \A e \in Entries :
          entries[e].refs = (IF entries[e].in_cache THEN 1 ELSE 0) + Holders(e)
    /\ \A t \in Threads :
          /\ (pc[t] = "ret" /\ ~IsOk(call[t].s)) => call[t].handle = 0
          /\ (pc[t] = "idle" /\ ~IsOk(call[t].found)) => call[t].s = call[t].found

\* A Get whose point lookup failed has returned, and the entry it read is
\* cached with no handle left.
C12_Witness ==
    \E t \in Threads :
        /\ pc[t] = "idle"
        /\ IsOk(call[t].found)
        /\ ~IsOk(call[t].s)
        /\ \E e \in Entries : entries[e].in_cache /\ entries[e].refs = 1

\* The status FindTable(file_number) ends with when it misses.
SearchStatus(file_number) ==
    SearchLoop([IdleCall EXCEPT !.file_number = file_number, !.file_size = 4,
                                !.search_dirs = SearchDirs(file_number),
                                !.last_status = NotFoundInitial], 1).s

\* C13: an iterator NewIterator returned after FindTable succeeded holds
\* one handle, of the table it reads, until it is destroyed, consumed or
\* not: the references of an entry count each live iterator on it once and
\* no destroyed one.  After a failed FindTable the iterator is an error
\* iterator with the status of FindTable, no handle and a null *tableptr.
C13_IteratorHoldsOneHandle ==
    /\ \A i \in 1..MaxIters :
          /\ iters[i].state = "live" =>
                /\ iters[i].cleanup # 0
                /\ iters[i].cleanup = iters[i].table
                /\ iters[i].tableptr = iters[i].table
                /\ entries[iters[i].cleanup].deleted = 0
          /\ iters[i].state = "error" =>
                /\ ~IsOk(iters[i].status)
                /\ \E n \in FileNumbers : iters[i].status = SearchStatus(n)
                /\ iters[i].cleanup = 0
                /\ iters[i].tableptr = 0
          /\ iters[i].state = "free" => iters[i].cleanup = 0
    /\ \A e \in Entries :
          Cardinality({i \in 1..MaxIters : iters[i].cleanup = e})
              = entries[e].refs - (IF entries[e].in_cache THEN 1 ELSE 0)
                - Cardinality({t \in Threads : pc[t] = "ret" /\ IsOk(call[t].s)
                                                /\ call[t].handle = e})

\* A partly consumed iterator holds the last reference of an erased entry.
C13_Witness ==
    \E i \in 1..MaxIters :
        /\ iters[i].state = "live"
        /\ iters[i].started
        /\ ~entries[iters[i].cleanup].in_cache
        /\ entries[iters[i].cleanup].refs = 1

\* The call of thread t missed in the cache and has its search path.
Missed(t) == pc[t] \in {"search", "insert", "ret"} /\ ~call[t].hit

\* C14: the search path of a call that missed is the function SearchDirs of
\* its file number and the configuration, whatever the cache held when it
\* was computed and holds now; the directories probed are a prefix of it;
\* and two calls for one file number that missed have the same path and,
\* once both have searched, have probed the same directories.
C14_SearchPathIsFunctionOfNumber ==
    /\ \A t \in Threads :
          Missed(t) =>
              /\ call[t].search_dirs = SearchDirs(call[t].file_number)
              /\ call[t].probed = SubSeq(call[t].search_dirs, 1, Len(call[t].probed))
    /\ \A t, u \in Threads :
          (Missed(t) /\ Missed(u) /\ call[t].file_number = call[u].file_number) =>
              /\ call[t].search_dirs = call[u].search_dirs
              /\ (pc[t] # "search" /\ pc[u] # "search") => call[t].probed = call[u].probed

\* Two calls for one file number have missed: one has returned the table it
\* inserted, the other has probed more than one directory.
C14_Witness ==
    \E t, u \in Threads :
        /\ t # u
        /\ pc[t] = "ret"
        /\ pc[u] = "insert"
        /\ Missed(t)
        /\ call[t].file_number = call[u].file_number
        /\ call[t].created # 0
        /\ Len(call[u].probed) > 1

\* The names in a list of directories.
Names(dirs) == {dirs[k] : k \in 1..Len(dirs)}

\* The places of a list of directories that hold the directory p.
Places(dirs, p) == {k \in 1..Len(dirs) : dirs[k] = p}

\* C15, as stated: the main directory is the last one of every search path.
C15_AsStated ==
    \A t \in Threads :
        Missed(t) => call[t].search_dirs[Len(call[t].search_dirs)] = dbname_

\* C15: the main directory is in every search path once.  It is the last
\* directory when the data directories are not used or do not name it;
\* when they name it, nothing is appended after the data directories, and
\* the main directory stands where the rotation puts it.
C15_PrimaryOnceLastUnlessListed ==
    \A t \in Threads :
        Missed(t) =>
            LET path == call[t].search_dirs
                listed == UseDataDirs /\ dbname_ \in Names(options_.data_dirs)
            IN /\ Cardinality(Places(path, dbname_)) = 1
               /\ ~listed => path[Len(path)] = dbname_
               /\ listed => /\ Names(path) = Names(options_.data_dirs) \ {""}
                            /\ Len(path) = Cardinality(Names(path))

\* The main directory is named among the data directories and is not the
\* last directory of the path.
C15_Witness ==
    \E t \in Threads :
        /\ pc[t] = "ret"
        /\ Missed(t)
        /\ dbname_ \in Names(options_.data_dirs)
        /\ call[t].search_dirs[Len(call[t].search_dirs)] # dbname_
        /\ call[t].probed[1] = dbname_

\* C16: with the data directories in use, N of them, the path of file
\* number n is the list data_dirs[(n mod N + i) mod N], i = 0..N-1, without
\* the empty names and without the places whose name stood at an earlier
\* place, then the main directory if it is not yet in; no directory is in
\* the path twice and the path is at most N + 1 long.
C16_RotatedDataDirsThenPrimary ==
    \A t \in Threads :
        (Missed(t) /\ UseDataDirs) =>
            LET path == call[t].search_dirs
                N == Len(options_.data_dirs)
                rot == [i \in 1..N |->
                          options_.data_dirs[((((call[t].file_number % N) + (i - 1)) % N) + 1)]]
                kept == {i \in 1..N : rot[i] # "" /\ \A j \in 1..(i - 1) : rot[j] # rot[i]}
                K == Cardinality(kept)
            IN /\ \A i \in kept : path[Cardinality({j \in kept : j <= i})] = rot[i]
               /\ IF \E i \in kept : rot[i] = dbname_
                  THEN Len(path) = K
                  ELSE Len(path) = K + 1 /\ path[K + 1] = dbname_
               /\ \A i, j \in 1..Len(path) : path[i] = path[j] => i = j
               /\ Len(path) <= N + 1

\* A path that starts at the second data directory, drops a name and
\* ends with the main directory.
C16_Witness ==
    \E t \in Threads :
        /\ pc[t] = "ret"
        /\ Missed(t)
        /\ UseDataDirs
        /\ call[t].file_number = 1
        /\ options_.data_dirs = <<"", "B">>
        /\ call[t].search_dirs = <<"B", dbname_>>

\* C20: when enable_multi_disk is off or data_dirs is empty the search path
\* is the main directory alone: every file name tried is in it, and the
\* call fails unless the main directory holds a table that opens and
\* parses, whatever the data directories hold.
C20_PrimaryOnlyWhenNotMultiDisk ==
    \A t \in Threads :
        (Missed(t) /\ (~options_.enable_multi_disk \/ options_.data_dirs = <<>>)) =>
            /\ call[t].search_dirs = <<dbname_>>
            /\ pc[t] # "search" =>
                  /\ call[t].probed = <<dbname_>>
                  /\ \A k \in 1..Len(call[t].tried) : call[t].tried[k].dir = dbname_
                  /\ IsOk(call[t].s) <=>
                        GoodDir(dbname_, call[t].file_number, call[t].file_size)

\* Multi-directory mode is off, data directory A is configured and holds
\* the table, the main directory does not: the call has failed.
C20_Witness ==
    \E t \in Threads :
        /\ pc[t] = "ret"
        /\ Missed(t)
        /\ ~options_.enable_multi_disk
        /\ options_.data_dirs = <<"A">>
        /\ GoodDir("A", call[t].file_number, call[t].file_size)
        /\ fs[dbname_][call[t].file_number] = "none"
        /\ call[t].s.code = "NotFound"

\* The directories of dirs before place k hold no table that opens and parses.
NoneGoodBefore(dirs, k, file_number, file_size) ==
    \A j \in 1..(k - 1) : ~GoodDir(dirs[j], file_number, file_size)

\* C17: a FindTable that missed probes the directories of its path in
\* order, each once, with at most two opens and one parse each; it stops
\* at the first directory whose table opens and parses and otherwise ends
\* after the last one; on success it inserts one entry, of charge 1, and
\* probes nothing more.
C17_EachDirectoryOnce ==
    /\ [](\A t \in Threads :
             (Missed(t) /\ pc[t] # "search") =>
                 LET c == call[t]
                     np == Len(c.probed)
                 IN /\ c.probed = SubSeq(c.search_dirs, 1, np)
                    /\ \A i, j \in 1..np : c.probed[i] = c.probed[j] => i = j
                    /\ \A i, j \in 1..Len(c.tried) : c.tried[i] = c.tried[j] => i = j
                    /\ \A k \in 1..np :
                          Cardinality({i \in 1..Len(c.tried) :
                                          c.tried[i].dir = c.probed[k]}) \in {1, 2}
                    /\ c.parses <= np
                    /\ NoneGoodBefore(c.probed, np, c.file_number, c.file_size)
                    /\ IF GoodDir(c.probed[np], c.file_number, c.file_size)
                       THEN IsOk(c.s) /\ c.file.dir = c.probed[np]
                       ELSE ~IsOk(c.s) /\ np = Len(c.search_dirs)
                    /\ (pc[t] = "ret" /\ IsOk(c.s)) =>
                          /\ c.created = c.handle
                          /\ c.created \in Entries
                          /\ entries[c.created].charge = 1
                          /\ entries[c.created].file = c.file)
    /\ [][\A t \in Threads :
             (pc[t] = "insert" /\ pc'[t] = "ret") =>
                 /\ Len(entries') = Len(entries) + 1
                 /\ call'[t].probed = call[t].probed
                 /\ call'[t].tried = call[t].tried
                 /\ call'[t].parses = call[t].parses]_vars

\* The call found the table in the second of three directories, after two
\* opens in the first, and has inserted it.
C17_Witness ==
    \E t \in Threads :
        /\ pc[t] = "ret"
        /\ Missed(t)
        /\ IsOk(call[t].s)
        /\ Len(call[t].search_dirs) = 3
        /\ Len(call[t].probed) = 2
        /\ Len(call[t].tried) = 3
        /\ call[t].parses = 1
        /\ entries[call[t].created].in_cache

\* C18: a FindTable that returns an error has a null handle and has closed
\* every file it opened; neither its lookup nor its search changed the
\* cache, no file is left open without an owner, and the key is still
\* absent from the cache, so the next FindTable of the number searches again.
C18_FailureLeavesNothing ==
    /\ [](\A t \in Threads :
             (pc[t] = "ret" /\ ~IsOk(call[t].s)) =>
                 /\ call[t].handle = 0
                 /\ call[t].created = 0
                 /\ call[t].tried # <<>>
                 /\ call[t].closedf = call[t].opened)
    /\ [](openFiles = Cardinality({e \in Entries : entries[e].deleted = 0})
                      + Cardinality({t \in Threads : pc[t] = "insert"}))
    /\ [][\A t \in Threads :
             /\ (pc[t] = "idle" /\ pc'[t] = "search") =>
                    entries' = entries /\ lru' = lru
             /\ (pc[t] = "search" /\ pc'[t] = "ret") =>
                    /\ entries' = entries
                    /\ lru' = lru
                    /\ openFiles' = openFiles
                    /\ IsMiss(TableLookup(entries', CacheKey(call[t].file_number)))]_vars

\* The call failed on a table that opened and did not parse, with another
\* table in the cache.
C18_Witness ==
    \E t \in Threads :
        /\ pc[t] = "ret"
        /\ call[t].s.code = "Corruption"
        /\ call[t].opened > 0
        /\ call[t].closedf = call[t].opened
        /\ \E e \in Entries : entries[e].in_cache

\* C19: FindTable and Evict make the same key of a file number and
\* different numbers have different keys; Evict(n) takes the entry cached
\* for n out of the cache, deleting it if no handle is left, and changes
\* no other entry, no handle of a call and no iterator; when nothing is
\* cached for n it changes nothing.
C19_EvictRemovesOnlyItsEntry ==
    /\ [](\A n, m \in FileNumbers :
             /\ CacheKey(n) = EvictKey(n)
             /\ n # m => CacheKey(n) # CacheKey(m))
    /\ [][\A n \in FileNumbers :
             Evict(n) =>
                 LET e == TableLookup(entries, CacheKey(n)) IN
                 /\ \A x \in Entries : x # e => entries'[x] = entries[x]
                 /\ e # 0 =>
                       /\ NumberOf(e) = n
                       /\ ~entries'[e].in_cache
                       /\ entries'[e].removed = "erased"
                       /\ entries'[e].deleted = (IF entries[e].refs = 1 THEN 1 ELSE 0)
                       /\ lru' = LRU_Remove(lru, e)
                 /\ e = 0 => (entries' = entries /\ lru' = lru)
                 /\ Len(entries') = Len(entries)
                 /\ iters' = iters
                 /\ pc' = pc
                 /\ \A t \in Threads : call'[t].handle = call[t].handle]_vars

\* An entry was erased while the entry of the other file number, cached
\* with a handle out, stays as it is.
C19_Witness ==
    \E e, x \in Entries :
        /\ entries[e].removed = "erased"
        /\ NumberOf(x) # NumberOf(e)
        /\ x < e
        /\ entries[x].in_cache
        /\ Holders(x) > 0

====
